---- MODULE Spec2Model ----
(***************************************************************************)
(* Model of streamlit_app.py (st-pdf-foundry).                             *)
(*                                                                         *)
(* Two granularities are modelled:                                         *)
(*   CallSpec : restrict_copying_pdf executed statement by statement       *)
(*              (lines 28-78), called repeatedly with arbitrary arguments. *)
(*   Spec     : one Streamlit session running main() (lines 138-447); each *)
(*              user interaction reruns the script, so each widget         *)
(*              interaction is one action covering the whole rerun.        *)
(***************************************************************************)
EXTENDS Integers, Sequences, FiniteSets, TLC

VARIABLES
    \* ---- one activation of restrict_copying_pdf ----
    pc,                    \* statement about to be executed
    pdf_bytes,             \* argument: the PDF (0 = no activation yet)
    allow_interactive,     \* argument
    allow_text_selection,  \* argument
    omitted,               \* TRUE iff the caller left both flags out
    permissions,           \* local of lines 47-63
    writer,                \* pages added to the PdfWriter so far
    encrypt_calls,         \* writer.encrypt invocations of this activation
    output_buffer,         \* <<>> or <<what writer.write serialised>>
    calls,                 \* (flags, permissions_flag) of every encrypt call ever made
    \* ---- the Streamlit session ----
    uploaded_file,         \* 0 = None, else the uploaded PDF
    session_state,         \* st.session_state: function key -> value
    messages               \* st.success / st.info / st.error of the last rerun

callVars == <<pc, pdf_bytes, allow_interactive, allow_text_selection, omitted,
              permissions, writer, encrypt_calls, output_buffer, calls>>
uiVars == <<uploaded_file, session_state, messages>>
vars == <<pc, pdf_bytes, allow_interactive, allow_text_selection, omitted,
          permissions, writer, encrypt_calls, output_buffer, calls,
          uploaded_file, session_state, messages>>

----------------------------------------------------------------------------
(* Bounds *)

\* number of distinct PDFs a user may upload / pass in
MaxFiles == 2
\* number of slider positions above the minimum that are explored
MaxSliderSteps == 1

(* Program constants *)
allow_interactive_default == FALSE
allow_text_selection_default == FALSE
owner_password == "owner_protection_key"
slider_min == 72
slider_max == 300
slider_value == 150
slider_step == 25

Files == 1 .. MaxFiles
\* PDF f has f pages; page i of f is <<f, i>>
NumPages(f) == f
ReaderPages(f) == [i \in 1 .. NumPages(f) |-> <<f, i>>]

\* positions the DPI slider can be in: its initial value and the step grid
SliderValues ==
    {slider_value} \cup
    {d \in {slider_min + slider_step * k : k \in 0 .. (MaxSliderSteps - 1)} :
        d <= slider_max}

----------------------------------------------------------------------------
(* Integer bit operations, as Python's | and & on non-negative ints *)

RECURSIVE BitOr(_, _)
BitOr(a, b) ==
    IF a = 0 THEN b
    ELSE IF b = 0 THEN a
    ELSE (IF a % 2 = 1 \/ b % 2 = 1 THEN 1 ELSE 0) + 2 * BitOr(a \div 2, b \div 2)

RECURSIVE BitAnd(_, _)
BitAnd(a, b) ==
    IF a = 0 \/ b = 0 THEN 0
    ELSE (IF a % 2 = 1 /\ b % 2 = 1 THEN 1 ELSE 0) + 2 * BitAnd(a \div 2, b \div 2)

----------------------------------------------------------------------------
(* restrict_copying_pdf: the permission statements, lines 46-63 *)

\* lines 49-51: permissions |= 4 ; permissions |= 2048
PermPrint(p) == BitOr(BitOr(p, 4), 2048)

\* lines 53-55 with a wrong constant: 8 (modify contents) for 32
MutPermTextWrongBit(p, ats) == IF ats THEN BitOr(BitOr(p, 16), 8) ELSE p

\* lines 53-55 with "=" where the code has "|="
MutPermTextAssign(p, ats) == IF ats THEN 48 ELSE p

\* lines 53-55
PermText(p, ats) == IF ats THEN BitOr(BitOr(p, 16), 32) ELSE p

\* lines 57-60 without line 59
MutPermInteractive(p, ai) == IF ai THEN BitOr(BitOr(p, 256), 1024) ELSE p

\* lines 57-60
PermInteractive(p, ai) ==
    IF ai THEN BitOr(BitOr(BitOr(p, 256), 512), 1024) ELSE p

\* lines 62-63 left out
MutPermView(p) == p

\* lines 62-63
PermView(p) == BitOr(p, 64)

\* lines 46-63 run in sequence, as the whole call does
BuildPermissions(ai, ats) ==
    PermView(PermInteractive(PermText(PermPrint(0), ats), ai))

----------------------------------------------------------------------------
(* Initial state: nothing called yet, fresh session, no file uploaded *)

Init ==
    /\ pc = "idle"
    /\ pdf_bytes = 0
    /\ allow_interactive = allow_interactive_default
    /\ allow_text_selection = allow_text_selection_default
    /\ omitted = FALSE
    /\ permissions = 0
    /\ writer = <<>>
    /\ encrypt_calls = <<>>
    /\ output_buffer = <<>>
    /\ calls = {}
    /\ uploaded_file = 0
    /\ session_state = <<>>
    /\ messages = <<>>

----------------------------------------------------------------------------
(* restrict_copying_pdf, statement by statement (lines 28-78) *)

\* lines 28-30: entry with both flags given
Call(pdf, ai, ats) ==
    /\ pc \in {"idle", "done", "raised"}
    /\ pc' = "reader"
    /\ pdf_bytes' = pdf
    /\ allow_interactive' = ai
    /\ allow_text_selection' = ats
    /\ omitted' = FALSE
    /\ writer' = <<>>
    /\ encrypt_calls' = <<>>
    /\ output_buffer' = <<>>
    /\ UNCHANGED <<permissions, calls>>
    /\ UNCHANGED uiVars

\* lines 28-30: entry with both flags left out, the defaults apply
CallDefault(pdf) ==
    /\ pc \in {"idle", "done", "raised"}
    /\ pc' = "reader"
    /\ pdf_bytes' = pdf
    /\ allow_interactive' = allow_interactive_default
    /\ allow_text_selection' = allow_text_selection_default
    /\ omitted' = TRUE
    /\ writer' = <<>>
    /\ encrypt_calls' = <<>>
    /\ output_buffer' = <<>>
    /\ UNCHANGED <<permissions, calls>>
    /\ UNCHANGED uiVars

\* lines 39-40: reader = PdfReader(...); writer = PdfWriter()
OpenReader ==
    /\ pc = "reader"
    /\ pc' = "add_page"
    /\ writer' = <<>>
    /\ UNCHANGED <<pdf_bytes, allow_interactive, allow_text_selection, omitted,
                   permissions, encrypt_calls, output_buffer, calls>>
    /\ UNCHANGED uiVars

\* lines 43-44: one iteration of the loop over reader.pages
AddPage ==
    /\ pc = "add_page"
    /\ Len(writer) < NumPages(pdf_bytes)
    /\ writer' = Append(writer, ReaderPages(pdf_bytes)[Len(writer) + 1])
    /\ UNCHANGED <<pc, pdf_bytes, allow_interactive, allow_text_selection, omitted,
                   permissions, encrypt_calls, output_buffer, calls>>
    /\ UNCHANGED uiVars

\* line 43 leaving the loop after the first page
MutLoopExit ==
    /\ pc = "add_page"
    /\ Len(writer) >= 1 \/ Len(writer) = NumPages(pdf_bytes)
    /\ pc' = "perm_init"
    /\ UNCHANGED <<pdf_bytes, allow_interactive, allow_text_selection, omitted,
                   permissions, writer, encrypt_calls, output_buffer, calls>>
    /\ UNCHANGED uiVars

\* line 43: reader.pages exhausted
LoopExit ==
    /\ pc = "add_page"
    /\ Len(writer) = NumPages(pdf_bytes)
    /\ pc' = "perm_init"
    /\ UNCHANGED <<pdf_bytes, allow_interactive, allow_text_selection, omitted,
                   permissions, writer, encrypt_calls, output_buffer, calls>>
    /\ UNCHANGED uiVars

\* line 47 missing: permissions keeps what an earlier call left in it
MutPermInit ==
    /\ pc = "perm_init"
    /\ pc' = "perm_print"
    /\ UNCHANGED <<pdf_bytes, allow_interactive, allow_text_selection, omitted,
                   permissions, writer, encrypt_calls, output_buffer, calls>>
    /\ UNCHANGED uiVars

\* line 47: permissions = 0
PermInit ==
    /\ pc = "perm_init"
    /\ pc' = "perm_print"
    /\ permissions' = 0
    /\ UNCHANGED <<pdf_bytes, allow_interactive, allow_text_selection, omitted,
                   writer, encrypt_calls, output_buffer, calls>>
    /\ UNCHANGED uiVars

\* lines 49-51
PermPrintStep ==
    /\ pc = "perm_print"
    /\ pc' = "perm_text"
    /\ permissions' = PermPrint(permissions)
    /\ UNCHANGED <<pdf_bytes, allow_interactive, allow_text_selection, omitted,
                   writer, encrypt_calls, output_buffer, calls>>
    /\ UNCHANGED uiVars

\* lines 53-55
PermTextStep ==
    /\ pc = "perm_text"
    /\ pc' = "perm_interactive"
    /\ permissions' = PermText(permissions, allow_text_selection)
    /\ UNCHANGED <<pdf_bytes, allow_interactive, allow_text_selection, omitted,
                   writer, encrypt_calls, output_buffer, calls>>
    /\ UNCHANGED uiVars

\* lines 57-60
PermInteractiveStep ==
    /\ pc = "perm_interactive"
    /\ pc' = "perm_view"
    /\ permissions' = PermInteractive(permissions, allow_interactive)
    /\ UNCHANGED <<pdf_bytes, allow_interactive, allow_text_selection, omitted,
                   writer, encrypt_calls, output_buffer, calls>>
    /\ UNCHANGED uiVars

\* lines 62-63
PermViewStep ==
    /\ pc = "perm_view"
    /\ pc' = "encrypt"
    /\ permissions' = PermView(permissions)
    /\ UNCHANGED <<pdf_bytes, allow_interactive, allow_text_selection, omitted,
                   writer, encrypt_calls, output_buffer, calls>>
    /\ UNCHANGED uiVars

\* the arguments of writer.encrypt at lines 66-72, with what the writer
\* held and whether anything had been written when it was invoked
EncryptArgs ==
    [user_password |-> "",
     owner_password |-> owner_password,
     use_128bit |-> TRUE,
     permissions_flag |-> permissions,
     pages |-> writer,
     written |-> output_buffer # <<>>]

\* lines 65-72: writer.encrypt(...)
Encrypt ==
    /\ pc = "encrypt"
    /\ pc' = "write"
    /\ encrypt_calls' = Append(encrypt_calls, EncryptArgs)
    /\ calls' = calls \cup {[interactive |-> allow_interactive,
                              text_selection |-> allow_text_selection,
                              permissions_flag |-> permissions]}
    /\ UNCHANGED <<pdf_bytes, allow_interactive, allow_text_selection, omitted,
                   permissions, writer, output_buffer>>
    /\ UNCHANGED uiVars

\* lines 74-76: writer.write(output_buffer)
WriteOutput ==
    /\ pc = "write"
    /\ pc' = "return"
    /\ output_buffer' = <<[pages |-> writer, encryption |-> encrypt_calls]>>
    /\ UNCHANGED <<pdf_bytes, allow_interactive, allow_text_selection, omitted,
                   permissions, writer, encrypt_calls, calls>>
    /\ UNCHANGED uiVars

\* lines 77-78: return output_buffer.getvalue()
Return ==
    /\ pc = "return"
    /\ pc' = "done"
    /\ UNCHANGED <<pdf_bytes, allow_interactive, allow_text_selection, omitted,
                   permissions, writer, encrypt_calls, output_buffer, calls>>
    /\ UNCHANGED uiVars

\* a pypdf call (lines 39, 44, 67, 76) raises; the exception leaves the function
Raise ==
    /\ pc \in {"reader", "add_page", "encrypt", "write"}
    /\ pc' = "raised"
    /\ UNCHANGED <<pdf_bytes, allow_interactive, allow_text_selection, omitted,
                   permissions, writer, encrypt_calls, output_buffer, calls>>
    /\ UNCHANGED uiVars

CallNext ==
    \/ \E pdf \in Files, ai \in BOOLEAN, ats \in BOOLEAN : Call(pdf, ai, ats)
    \/ \E pdf \in Files : CallDefault(pdf)
    \/ OpenReader
    \/ AddPage
    \/ LoopExit
    \/ PermInit
    \/ PermPrintStep
    \/ PermTextStep
    \/ PermInteractiveStep
    \/ PermViewStep
    \/ Encrypt
    \/ WriteOutput
    \/ Return
    \/ Raise

CallSpec == Init /\ [][CallNext]_vars

----------------------------------------------------------------------------
(* The three transforms as main() sees them: a call either returns its
   result or raises out of an external library *)

\* "/Annots" in page (line 17): odd-numbered pages carry annotations
HasAnnots(page) == page[2] % 2 = 1

\* flatten_pdf, lines 8-25
FlattenPdf(pdf) ==
    [op |-> "flatten",
     src |-> pdf,
     merged |-> {i \in 1 .. NumPages(pdf) : HasAnnots(ReaderPages(pdf)[i])}]

\* restrict_copying_pdf, lines 28-78, run to its return
RestrictCopyingPdf(pdf, ai, ats) ==
    [op |-> "restrict",
     src |-> pdf,
     allow_interactive |-> ai,
     allow_text_selection |-> ats,
     permissions_flag |-> BuildPermissions(ai, ats)]

\* convert_to_image_pdf with get_images=True, lines 81-129
ConvertToImages(pdf, dpi) ==
    [i \in 1 .. NumPages(pdf) |-> [page |-> ReaderPages(pdf)[i], dpi |-> dpi]]

\* convert_to_image_pdf with get_images=False, lines 81-135
ConvertToImagePdf(pdf, dpi) ==
    [op |-> "image_pdf", src |-> pdf, dpi |-> dpi]

----------------------------------------------------------------------------
(* st.session_state *)

Has(key) == key \in DOMAIN session_state

\* st.session_state[key] = value
Put(state, key, value) ==
    [k \in (DOMAIN state) \cup {key} |-> IF k = key THEN value ELSE state[k]]

Msg(kind, action) == [kind |-> kind, action |-> action]

----------------------------------------------------------------------------
(* Reruns of main() that press no button *)

\* lines 157-168: the user picks a (different) PDF in the uploader
Upload(pdf) ==
    /\ uploaded_file # pdf
    /\ uploaded_file' = pdf
    /\ messages' = <<>>
    /\ UNCHANGED session_state
    /\ UNCHANGED callVars

\* lines 157-161, 408-409: the user clears the uploader
RemoveFile ==
    /\ uploaded_file # 0
    /\ uploaded_file' = 0
    /\ messages' = <<>>
    /\ UNCHANGED session_state
    /\ UNCHANGED callVars

\* lines 205-215, 264-271: the user changes a checkbox or moves the slider;
\* the rerun presses no button and shows no message
WidgetRerun ==
    /\ uploaded_file # 0
    /\ messages' = <<>>
    /\ UNCHANGED <<uploaded_file, session_state>>
    /\ UNCHANGED callVars

----------------------------------------------------------------------------
(* Reruns of main() that press a button.  raises is whether the transform
   raised out of the external library.  The widgets are read afresh in every
   rerun: cb_text_selection and cb_interactive are what the checkboxes of
   lines 205-215 return in it, image_dpi what the slider of lines 264-271
   returns *)

\* lines 191-200
FlattenButton ==
    /\ uploaded_file # 0
    /\ \E raises \in BOOLEAN :
          IF raises
          THEN /\ messages' = <<Msg("error", "flatten")>>
               /\ UNCHANGED session_state
          ELSE /\ session_state' =
                     Put(session_state, "flattened_pdf", FlattenPdf(uploaded_file))
               /\ messages' = <<Msg("success", "flatten")>>
    /\ UNCHANGED uploaded_file
    /\ UNCHANGED callVars

\* lines 229-232 with the two values swapped
MutProtectionSettings(ats, ai) == [text_selection |-> ai, interactive |-> ats]

\* lines 229-232
ProtectionSettings(ats, ai) == [text_selection |-> ats, interactive |-> ai]

\* lines 217-259
ProtectButton(cb_text_selection, cb_interactive) ==
    /\ uploaded_file # 0
    /\ \E raises \in BOOLEAN :
          IF raises
          THEN /\ messages' = <<Msg("error", "protect")>>
               /\ UNCHANGED session_state
          ELSE /\ session_state' =
                     Put(Put(session_state, "protected_pdf",
                             RestrictCopyingPdf(uploaded_file, cb_interactive,
                                                cb_text_selection)),
                         "protection_settings",
                         ProtectionSettings(cb_text_selection, cb_interactive))
               /\ messages' = <<Msg("success", "protect"), Msg("info", "protect")>>
    /\ UNCHANGED uploaded_file
    /\ UNCHANGED callVars

\* lines 276-290 with line 286 moved in front of the call at line 282
MutGenerateImagesButton(image_dpi) ==
    /\ uploaded_file # 0
    /\ \E raises \in BOOLEAN :
          IF raises
          THEN /\ messages' = <<Msg("error", "images")>>
               /\ session_state' = Put(session_state, "image_dpi", image_dpi)
          ELSE /\ session_state' =
                     Put(Put(session_state, "page_images",
                             ConvertToImages(uploaded_file, image_dpi)),
                         "image_dpi", image_dpi)
               /\ messages' = <<Msg("success", "images"), Msg("info", "images")>>
    /\ UNCHANGED uploaded_file
    /\ UNCHANGED callVars

\* lines 276-290
GenerateImagesButton(image_dpi) ==
    /\ uploaded_file # 0
    /\ \E raises \in BOOLEAN :
          IF raises
          THEN /\ messages' = <<Msg("error", "images")>>
               /\ UNCHANGED session_state
          ELSE /\ session_state' =
                     Put(Put(session_state, "page_images",
                             ConvertToImages(uploaded_file, image_dpi)),
                         "image_dpi", image_dpi)
               /\ messages' = <<Msg("success", "images"), Msg("info", "images")>>
    /\ UNCHANGED uploaded_file
    /\ UNCHANGED callVars

\* lines 293-313
ImagePdfButton(image_dpi) ==
    /\ uploaded_file # 0
    /\ \E raises \in BOOLEAN :
          IF raises
          THEN /\ messages' = <<Msg("error", "image_pdf")>>
               /\ UNCHANGED session_state
          ELSE /\ session_state' =
                     Put(Put(session_state, "image_pdf",
                             ConvertToImagePdf(uploaded_file, image_dpi)),
                         "image_dpi", image_dpi)
               /\ messages' = <<Msg("success", "image_pdf"), Msg("info", "image_pdf")>>
    /\ UNCHANGED uploaded_file
    /\ UNCHANGED callVars

----------------------------------------------------------------------------
(* What the Downloads column shows after a rerun, lines 315-382 *)

\* st.session_state.get("image_dpi", "150"), lines 356 and 372, as the
\* number the f-string prints
DpiInfo == IF Has("image_dpi") THEN session_state["image_dpi"] ELSE 150

\* lines 338-344
HelpText ==
    IF Has("protection_settings")
    THEN <<"Text selection",
           IF session_state["protection_settings"].text_selection THEN "yes" ELSE "no",
           "Interactive elements",
           IF session_state["protection_settings"].interactive THEN "yes" ELSE "no">>
    ELSE <<"Copy-protected PDF with custom permissions">>

\* the keys of session_state that col2 turns into a download or a preview
Offered ==
    IF uploaded_file = 0 THEN {}
    ELSE {k \in {"flattened_pdf", "protected_pdf", "image_pdf", "page_images"} : Has(k)}

\* lines 327-382: for every offered result its file name (prefix, uploaded
\* name), its data, and the DPI or permission text displayed with it
Downloads ==
    [k \in Offered |->
        [file_name |-> <<k, uploaded_file>>,
         data |-> session_state[k],
         dpi_info |-> IF k \in {"image_pdf", "page_images"} THEN DpiInfo ELSE 0,
         help |-> IF k = "protected_pdf" THEN HelpText ELSE <<>>]]

Next ==
    \/ \E pdf \in Files : Upload(pdf)
    \/ RemoveFile
    \/ WidgetRerun
    \/ FlattenButton
    \/ \E ats \in BOOLEAN, ai \in BOOLEAN : ProtectButton(ats, ai)
    \/ \E dpi \in SliderValues : GenerateImagesButton(dpi)
    \/ \E dpi \in SliderValues : ImagePdfButton(dpi)

Spec == Init /\ [][Next]_vars

----------------------------------------------------------------------------
(* Properties of restrict_copying_pdf, checked under CallSpec *)

\* the masks of section 8 of the specification
ExpectedMask(ai, ats) ==
    IF ai THEN (IF ats THEN 3956 ELSE 3908) ELSE (IF ats THEN 2164 ELSE 2116)

FlagPairs == {<<ai, ats>> : ai \in BOOLEAN, ats \in BOOLEAN}

CalledWith(ai, ats) ==
    \E c \in calls : c.interactive = ai /\ c.text_selection = ats

\* C1: the mask passed to the encryption call is 2116, 3908, 2164, 3956 for
\* (allow_interactive, allow_text_selection) = (F,F), (T,F), (F,T), (T,T),
\* and a call that leaves both flags out passes the mask of (F,F).
C1_MaskTable ==
    /\ \A c \in calls :
          c.permissions_flag = ExpectedMask(c.interactive, c.text_selection)
    /\ \A i \in 1 .. Len(encrypt_calls) :
          /\ encrypt_calls[i].permissions_flag =
                ExpectedMask(allow_interactive, allow_text_selection)
          /\ omitted => encrypt_calls[i].permissions_flag = 2116

C1_Witness ==
    /\ \A fp \in FlagPairs : CalledWith(fp[1], fp[2])
    /\ omitted
    /\ pc = "done"
    /\ encrypt_calls # <<>>

\* C2: whatever the flags, the mask passed to the encryption call has the
\* print (4), print-high-resolution (2048) and modify-annotations (64) bits.
C2_BaselineAlwaysSet ==
    \A c \in calls :
        /\ BitAnd(c.permissions_flag, 4) = 4
        /\ BitAnd(c.permissions_flag, 2048) = 2048
        /\ BitAnd(c.permissions_flag, 64) = 64
        /\ BitAnd(c.permissions_flag, 2116) = 2116

C2_Witness ==
    /\ CalledWith(FALSE, FALSE)
    /\ CalledWith(TRUE, TRUE)
    /\ CalledWith(TRUE, FALSE)
    /\ CalledWith(FALSE, TRUE)

\* a 32-bit word as its two 16-bit halves
Half == 2 ^ 16
HighHalf(n) == n \div Half
LowHalf(n) == n % Half

\* C3: the mask is a non-negative integer below 2^32 with no bit outside
\* 4, 16, 32, 64, 256, 512, 1024, 2048 (mask & ~3956 = 0, taken on the
\* high and the low 16 bits of the 32-bit complement of 3956).
C3_NoForeignBits ==
    \A c \in calls :
        /\ c.permissions_flag >= 0
        /\ HighHalf(c.permissions_flag) < Half
        /\ BitAnd(HighHalf(c.permissions_flag), Half - 1) = 0
        /\ BitAnd(LowHalf(c.permissions_flag), (Half - 1) - 3956) = 0

C3_Witness ==
    /\ Cardinality(calls) = 4
    /\ \E c \in calls : c.permissions_flag = 3956

\* C4: turning one flag from false to true, the other held fixed, gives a
\* mask that contains every bit of the previous mask.
C4_Monotone ==
    \A c1, c2 \in calls :
        /\ (c1.interactive => c2.interactive)
        /\ (c1.text_selection => c2.text_selection)
        => BitAnd(c1.permissions_flag, c2.permissions_flag) = c1.permissions_flag

C4_Witness ==
    \E c1, c2, c3 \in calls :
        /\ ~c1.interactive /\ ~c1.text_selection
        /\ ~c2.interactive /\ c2.text_selection
        /\ c3.interactive /\ c3.text_selection
        /\ c1.permissions_flag # c2.permissions_flag
        /\ c2.permissions_flag # c3.permissions_flag

\* C5: two invocations with the same flags pass the same mask, whatever
\* PDF they were given and whatever was invoked before them.
C5_Deterministic ==
    /\ \A c1, c2 \in calls :
          (c1.interactive = c2.interactive /\ c1.text_selection = c2.text_selection)
          => c1.permissions_flag = c2.permissions_flag
    /\ pc = "encrypt" =>
          \A c \in calls :
              (c.interactive = allow_interactive
               /\ c.text_selection = allow_text_selection)
              => c.permissions_flag = permissions

\* a second invocation with flags already used, after invocations with
\* other flags, has built its mask and is about to pass it on
C5_Witness ==
    /\ pc = "encrypt"
    /\ CalledWith(allow_interactive, allow_text_selection)
    /\ Cardinality(calls) >= 3
    /\ pdf_bytes = MaxFiles

----------------------------------------------------------------------------
(* Properties of the session, checked under Spec *)

IsError(msgs) == msgs # <<>> /\ msgs[1].kind = "error"

\* C7: a rerun whose action failed shows one error message for that action
\* and leaves session_state as it was; what the Downloads column offers is
\* what it offered before.
C7_FailureLeavesSession ==
    [][IsError(messages') =>
          /\ Len(messages') = 1
          /\ messages'[1].action \in {"flatten", "protect", "images", "image_pdf"}
          /\ session_state' = session_state
          /\ Downloads' = Downloads]_vars

C7_Witness ==
    /\ messages = <<Msg("error", "images")>>
    /\ ~Has("page_images")
    /\ ~Has("image_dpi")
    /\ "flattened_pdf" \in Offered

\* the PDF a stored result was produced from
SourceOf(key) ==
    IF key = "page_images"
    THEN {session_state[key][i].page[1] : i \in 1 .. Len(session_state[key])}
    ELSE {session_state[key].src}

\* C8: every result offered for download or preview was produced from the
\* PDF that is currently uploaded.
C8_ResultsOfCurrentUpload ==
    \A k \in Offered : SourceOf(k) = {uploaded_file}

\* the DPI a stored image result was rendered at
RenderedDpi(key) ==
    IF key = "page_images"
    THEN {session_state[key][i].dpi : i \in 1 .. Len(session_state[key])}
    ELSE {session_state[key].dpi}

\* C9: the DPI displayed with the stored image PDF and with the stored page
\* images is the DPI each of them was rendered at.
C9_ShownDpiIsRenderedDpi ==
    \A k \in Offered \cap {"image_pdf", "page_images"} :
        RenderedDpi(k) = {Downloads[k].dpi_info}

YesNo(b) == IF b THEN "yes" ELSE "no"

\* C10: protection_settings is present exactly when protected_pdf is, its
\* values are the flags the stored protected PDF was produced with, and the
\* download help text states them.
C10_SettingsMatchProtectedPdf ==
    /\ Has("protection_settings") <=> Has("protected_pdf")
    /\ Has("protected_pdf") =>
          /\ session_state["protection_settings"].text_selection =
                session_state["protected_pdf"].allow_text_selection
          /\ session_state["protection_settings"].interactive =
                session_state["protected_pdf"].allow_interactive
          /\ HelpText =
                <<"Text selection",
                  YesNo(session_state["protected_pdf"].allow_text_selection),
                  "Interactive elements",
                  YesNo(session_state["protected_pdf"].allow_interactive)>>

\* a protected PDF is on offer, and a later attempt to apply protection
\* again has failed
C10_Witness ==
    /\ "protected_pdf" \in Offered
    /\ session_state["protected_pdf"].allow_text_selection
    /\ ~session_state["protected_pdf"].allow_interactive
    /\ messages = <<Msg("error", "protect")>>

====
